---- MODULE Spec2Model ----
(***************************************************************************)
(* Model of the RAG ingestion pipeline of ingestion_flow.py: the loader,   *)
(* the chunker (RecursiveCharacterTextSplitter(1000, 200)), the embedding  *)
(* call and the Qdrant collection lookup / re-creation / upsert, run as    *)
(* the Prefect flow data_ingestion_flow.                                   *)
(*                                                                         *)
(* A text is a sequence of one-character strings.  A span [s, e] names the *)
(* characters s..e of a text (empty when e = s - 1).                       *)
(***************************************************************************)
EXTENDS Integers, Sequences, FiniteSets, TLC

(***************************************************************************)
(* Chunker: split_documents, ingestion_flow.py:55-61.                      *)
(***************************************************************************)
chunk_size == 1000
chunk_overlap == 200

\* The default separators of RecursiveCharacterTextSplitter: "\n\n", "\n", " ", "".
separators == << <<"\n", "\n">>, <<"\n">>, <<" ">>, <<>> >>

\* The characters str.strip() removes: the 29 characters str.isspace() holds of.
\* A text is a sequence of characters; a character that a string of this module
\* cannot hold is written as its code point.
Whitespace ==
    {"\t", "\n", "U+000B", "\f", "\r", "U+001C", "U+001D", "U+001E", "U+001F", " ",
     "U+0085", "U+00A0", "U+1680", "U+2000", "U+2001", "U+2002", "U+2003", "U+2004",
     "U+2005", "U+2006", "U+2007", "U+2008", "U+2009", "U+200A", "U+2028", "U+2029",
     "U+202F", "U+205F", "U+3000"}

SpanLen(p) == p.e - p.s + 1

\* str.strip() on text[p.s..p.e]: the span without leading and trailing whitespace.
strip(text, p) ==
    IF \A i \in p.s..p.e : text[i] \in Whitespace
    THEN [s |-> p.s, e |-> p.s - 1]
    ELSE [s |-> CHOOSE i \in p.s..p.e :
                    /\ text[i] \notin Whitespace
                    /\ \A j \in p.s..(i - 1) : text[j] \in Whitespace,
          e |-> CHOOSE i \in p.s..p.e :
                    /\ text[i] \notin Whitespace
                    /\ \A j \in (i + 1)..p.e : text[j] \in Whitespace]

\* The separator sep occurs in text at position i, inside the span ending at last.
match_at(text, i, last, sep) ==
    /\ i + Len(sep) - 1 <= last
    /\ \A k \in 1..Len(sep) : text[i + k - 1] = sep[k]

\* re.search(separator, text) on the span p.
re_search(text, p, sep) == \E i \in p.s..p.e : match_at(text, i, p.e, sep)

\* One position of the left-to-right scan of re.split(f"({separator})", text):
\* st.start is where the piece being read began, st.skip the characters of a
\* matched separator still to pass.  A piece is the separator followed by the text
\* up to the next separator (keep_separator=True); empty pieces are dropped.
ScanStep(text, p, sep, st, i) ==
    IF st.skip > 0
    THEN [st EXCEPT !.skip = @ - 1]
    ELSE IF match_at(text, i, p.e, sep)
         THEN [out   |-> IF i > st.start
                         THEN Append(st.out, [s |-> st.start, e |-> i - 1])
                         ELSE st.out,
               start |-> i,
               skip  |-> Len(sep) - 1]
         ELSE st

\* The loops of the splitter are left folds over an index range lo..hi, written
\* by halving the range so that the evaluation depth stays logarithmic in the
\* text length.  TLC passes operator arguments unevaluated: Done(left) makes it
\* compute the state after the first half before the second half is entered.
Done(st) == st = st

\* The scan over the positions lo..hi, in order.
RECURSIVE Scan(_, _, _, _, _, _)
Scan(text, p, sep, lo, hi, st) ==
    IF lo > hi THEN st
    ELSE IF lo = hi THEN ScanStep(text, p, sep, st, lo)
    ELSE LET mid  == (lo + hi) \div 2
             left == Scan(text, p, sep, lo, mid, st)
         IN  IF Done(left) THEN Scan(text, p, sep, mid + 1, hi, left) ELSE left

\* _split_text_with_regex(text, separator, keep_separator=True): the pieces of the
\* span p, as spans; list(text) for the empty separator.
split_text_with_regex(text, p, sep) ==
    IF sep = <<>>
    THEN [k \in 1..SpanLen(p) |-> [s |-> p.s + k - 1, e |-> p.s + k - 1]]
    ELSE LET st == Scan(text, p, sep, p.s, p.e,
                        [out |-> <<>>, start |-> p.s, skip |-> 0])
         IN  IF st.start <= p.e
             THEN Append(st.out, [s |-> st.start, e |-> p.e])
             ELSE st.out

\* _join_docs(docs, ""): the pieces are adjacent in the text, so their join is the
\* span from the first piece's start to the last piece's end; then strip().
\* An empty result stands for None.
join_docs(text, cur) == strip(text, [s |-> cur[1].s, e |-> cur[Len(cur)].e])

\* PopCond with >= for >: the pop loop stops one piece later.
PopCond_ge(total, len) ==
    \/ total >= chunk_overlap
    \/ (total + len > chunk_size /\ total > 0)

\* The condition of the pop loop of _merge_splits.
PopCond(total, len) ==
    \/ total > chunk_overlap
    \/ (total + len > chunk_size /\ total > 0)

\* One iteration of the pop loop: drop the first piece while the condition holds.
PopStep(st, len) ==
    IF PopCond(st.total, len) /\ Len(st.cur) > 0
    THEN [cur |-> Tail(st.cur), total |-> st.total - SpanLen(Head(st.cur))]
    ELSE st

\* The pop loop, run for at most n iterations (it ends as soon as the condition is
\* false, and the condition is false once current_doc is empty).
RECURSIVE PopLoop(_, _, _)
PopLoop(st, len, n) ==
    IF n = 0 THEN st
    ELSE IF n = 1 THEN PopStep(st, len)
    ELSE LET h    == n \div 2
             left == PopLoop(st, len, h)
         IN  IF Done(left) THEN PopLoop(left, len, n - h) ELSE left

\* The body of the for loop of _merge_splits for the piece d (separator_len = 0).
MergeStep(text, st, d) ==
    LET len == SpanLen(d)
    IN  IF st.total + len > chunk_size /\ Len(st.cur) > 0
        THEN LET doc    == join_docs(text, st.cur)
                 popped == PopLoop([cur |-> st.cur, total |-> st.total], len,
                                   Len(st.cur))
             IN  [docs  |-> IF SpanLen(doc) > 0 THEN Append(st.docs, doc)
                            ELSE st.docs,
                  cur   |-> Append(popped.cur, d),
                  total |-> popped.total + len]
        ELSE [docs  |-> st.docs,
              cur   |-> Append(st.cur, d),
              total |-> st.total + len]

RECURSIVE MergeLoop(_, _, _, _, _)
MergeLoop(text, splits, lo, hi, st) ==
    IF lo > hi THEN st
    ELSE IF lo = hi THEN MergeStep(text, st, splits[lo])
    ELSE LET mid  == (lo + hi) \div 2
             left == MergeLoop(text, splits, lo, mid, st)
         IN  IF Done(left) THEN MergeLoop(text, splits, mid + 1, hi, left) ELSE left

\* _merge_splits(splits, ""): the chunks (as spans) built from the pieces.
merge_splits(text, splits) ==
    LET st  == MergeLoop(text, splits, 1, Len(splits),
                         [docs |-> <<>>, cur |-> <<>>, total |-> 0])
        doc == join_docs(text, st.cur)
    IN  IF Len(st.cur) > 0 /\ SpanLen(doc) > 0
        THEN Append(st.docs, doc)
        ELSE st.docs

\* The index of the separator _split_text picks: the first that is "" or occurs in
\* the text, else the last.
PickSeparator(text, p, seps) ==
    IF \E i \in 1..Len(seps) : seps[i] = <<>> \/ re_search(text, p, seps[i])
    THEN CHOOSE i \in 1..Len(seps) :
            /\ seps[i] = <<>> \/ re_search(text, p, seps[i])
            /\ \A j \in 1..(i - 1) : ~(seps[j] = <<>> \/ re_search(text, p, seps[j]))
    ELSE Len(seps)

RECURSIVE split_text_rec(_, _, _)
RECURSIVE GroupLoop(_, _, _, _, _, _)

\* The body of the for loop of _split_text for the piece s: short pieces are
\* collected, a long piece flushes the collected ones and is split further.
GroupStep(text, new_separators, st, s) ==
    IF SpanLen(s) < chunk_size
    THEN [st EXCEPT !.good = Append(@, s)]
    ELSE LET flushed == IF Len(st.good) > 0
                        THEN st.final \o merge_splits(text, st.good)
                        ELSE st.final
         IN  [final |-> IF new_separators = <<>>
                        THEN Append(flushed, s)
                        ELSE flushed \o split_text_rec(text, s, new_separators),
              good  |-> <<>>]

GroupLoop(text, new_separators, splits, lo, hi, st) ==
    IF lo > hi THEN st
    ELSE IF lo = hi THEN GroupStep(text, new_separators, st, splits[lo])
    ELSE LET mid  == (lo + hi) \div 2
             left == GroupLoop(text, new_separators, splits, lo, mid, st)
         IN  IF Done(left)
             THEN GroupLoop(text, new_separators, splits, mid + 1, hi, left)
             ELSE left

\* RecursiveCharacterTextSplitter._split_text(text, separators) on the span p.
split_text_rec(text, p, seps) ==
    LET i      == PickSeparator(text, p, seps)
        sep    == seps[i]
        new_separators ==
            IF sep # <<>> /\ re_search(text, p, sep)
            THEN SubSeq(seps, i + 1, Len(seps))
            ELSE <<>>
        splits == split_text_with_regex(text, p, sep)
        st     == GroupLoop(text, new_separators, splits, 1, Len(splits),
                            [final |-> <<>>, good |-> <<>>])
    IN  IF Len(st.good) > 0
        THEN st.final \o merge_splits(text, st.good)
        ELSE st.final

\* split_text(text): the chunks of a text, as spans of it, in order.
split_text_spans(text) == split_text_rec(text, [s |-> 1, e |-> Len(text)], separators)

\* split_text(text): the chunks of a text, as texts.
split_text(text) ==
    LET spans == split_text_spans(text)
    IN  [k \in 1..Len(spans) |-> SubSeq(text, spans[k].s, spans[k].e)]

\* create_documents for one document: a chunk per piece of split_text, each with
\* a copy of the document's metadata.
ChunksOf(document) ==
    LET texts == split_text(document.page_content)
    IN  [k \in 1..Len(texts) |->
            [page_content |-> texts[k], metadata |-> document.metadata]]

RECURSIVE ChunksOfAll(_)
ChunksOfAll(documents) ==
    IF documents = <<>> THEN <<>>
    ELSE ChunksOf(Head(documents)) \o ChunksOfAll(Tail(documents))

\* split_documents(documents), ingestion_flow.py:56-61.
split_documents(documents) ==
    IF documents = <<>> THEN <<>> ELSE ChunksOfAll(documents)


(***************************************************************************)
(* Loader: load_documents_from_directory, ingestion_flow.py:25-53.         *)
(*                                                                         *)
(* A directory is [exists, files]: files lists the files of the tree in    *)
(* os.walk order.  A file is [ext, loads, pages]: the extension of its     *)
(* name as written (os.path.splitext), whether its loader's load()         *)
(* returns, and the page texts load() returns.                             *)
(***************************************************************************)
Upper == <<"A", "B", "C", "D", "E", "F", "G", "H", "I", "J", "K", "L", "M",
           "N", "O", "P", "Q", "R", "S", "T", "U", "V", "W", "X", "Y", "Z">>
Lower == <<"a", "b", "c", "d", "e", "f", "g", "h", "i", "j", "k", "l", "m",
           "n", "o", "p", "q", "r", "s", "t", "u", "v", "w", "x", "y", "z">>

\* str.lower(), character by character.
lower(str) ==
    [k \in 1..Len(str) |->
        IF \E u \in 1..Len(Upper) : Upper[u] = str[k]
        THEN Lower[CHOOSE u \in 1..Len(Upper) : Upper[u] = str[k]]
        ELSE str[k]]

\* The keys of LOADER_MAPPING.
LOADER_MAPPING ==
    { <<".", "p", "d", "f">>, <<".", "m", "d">>, <<".", "d", "o", "c", "x">>,
      <<".", "p", "y">>, <<".", "j", "s">>, <<".", "t", "s">>,
      <<".", "h", "t", "m", "l">>, <<".", "c", "s", "s">>,
      <<".", "t", "x", "t">>, <<".", "i", "p", "y", "n", "b">> }

\* loader_class(file_path).load(): the documents of a file, or an exception.
loader_load(dir, i, file) ==
    IF file.loads
    THEN [raised |-> FALSE,
          docs   |-> [k \in 1..Len(file.pages) |->
                        [page_content |-> file.pages[k],
                         metadata     |-> [source |-> <<dir, i>>, page |-> k]]]]
    ELSE [raised |-> TRUE, docs |-> <<>>]

\* LoadFile without the try/except of lines 47-51: the loader's exception escapes.
LoadFile_no_except(dir, i, file, all_docs) ==
    IF lower(file.ext) \in LOADER_MAPPING
    THEN LET res == loader_load(dir, i, file)
         IN  IF res.raised
             THEN [raised |-> TRUE, docs |-> all_docs]
             ELSE [raised |-> FALSE, docs |-> all_docs \o res.docs]
    ELSE [raised |-> FALSE, docs |-> all_docs]

\* The body of the file loop for the i-th file: a file with a mapped extension is
\* loaded inside try/except, which absorbs the loader's exception.
LoadFile(dir, i, file, all_docs) ==
    IF lower(file.ext) \in LOADER_MAPPING
    THEN LET res == loader_load(dir, i, file)
         IN  IF res.raised
             THEN [raised |-> FALSE, docs |-> all_docs]
             ELSE [raised |-> FALSE, docs |-> all_docs \o res.docs]
    ELSE [raised |-> FALSE, docs |-> all_docs]

\* The file loop from the i-th file on; an exception that escaped a file's body
\* would end the loop.
RECURSIVE LoadFiles(_, _, _, _)
LoadFiles(dir, files, i, acc) ==
    IF i > Len(files) \/ acc.raised THEN acc
    ELSE LoadFiles(dir, files, i + 1, LoadFile(dir, i, files[i], acc.docs))

\* load_documents_from_directory(directory): [raised, docs].
load_documents_from_directory(dir, directory) ==
    IF ~directory.exists
    THEN [raised |-> FALSE, docs |-> <<>>]
    ELSE LoadFiles(dir, directory.files, 1, [raised |-> FALSE, docs |-> <<>>])

(***************************************************************************)
(* State.                                                                  *)
(*   fs          the source directories, by position in Dirs               *)
(*   collection  the Qdrant collection COLLECTION_NAME: [exists, size,     *)
(*               points], points a function from point id to               *)
(*               [vector, payload]                                         *)
(*   run         per flow run (two runs, one after or beside the other):   *)
(*               its position (pc), the locals of the flow                 *)
(*               and of generate_and_store_embeddings, the calls it made   *)
(*               to the chunker, the embedding provider and the vector     *)
(*               store with how each returned, and how it ended            *)
(*   snap        per flow run: the ids and payloads the collection held    *)
(*               when the run ended (an observation, not program state)    *)
(*   environ     the environment of the query service's process            *)
(*   qa_chain    the global qa_chain of rag_api.py                         *)
(*   app         the query service: its position (pc), the calls           *)
(*               startup_event made with how each returned, and the        *)
(*               requests it answered since it started                     *)
(***************************************************************************)
VARIABLES fs, collection, run, snap, environ, qa_chain, app

vars == <<fs, collection, run, snap, environ, qa_chain, app>>

Runs == {1, 2}

\* cv_dir, projects_dir, repos_dir: the order data_ingestion_flow loads them in.
Dirs == <<"CV", "proyectos", "repos">>

NoError == [type |-> "none", stage |-> "none"]

\* An exception raised by a library call: it carries the library's error type
\* and names no pipeline stage.
Exception(type) == [type |-> type, stage |-> "none"]

NewRun(pc) ==
    [pc            |-> pc,
     all_documents |-> <<>>,
     chunks        |-> <<>>,
     texts         |-> <<>>,
     metadatas     |-> <<>>,
     vectors       |-> <<>>,
     vector_size   |-> 0,
     calls         |-> <<>>,
     after         |-> {},
     outcome       |-> "running",
     error         |-> NoError]

Call(op, res) == [op |-> op, res |-> res]

\* The run returns normally (outcome "success" or "empty").
Return(rn, outcome) == [rn EXCEPT !.pc = "done", !.outcome = outcome]

\* An exception leaves data_ingestion_flow: nothing in the flow catches it.
Raise(rn, e) == [rn EXCEPT !.pc = "done", !.outcome = "failed", !.error = e]

PayloadView(c) ==
    IF c.exists THEN [id \in DOMAIN c.points |-> c.points[id].payload] ELSE <<>>

\* Records, when run r ends in this step, what the collection then holds.
Observe(r) ==
    snap' = IF run'[r].pc = "done" /\ run[r].pc # "done"
            THEN [snap EXCEPT ![r] = PayloadView(collection')]
            ELSE snap

(***************************************************************************)
(* data_ingestion_flow, ingestion_flow.py:114-128.                         *)
(***************************************************************************)
\* Lines 117-121: the three directories are loaded in order and concatenated.
LoadAll(files) ==
    LET cv       == load_documents_from_directory(1, files[1])
        projects == load_documents_from_directory(2, files[2])
        repos    == load_documents_from_directory(3, files[3])
    IN  [raised |-> cv.raised \/ projects.raised \/ repos.raised,
         docs   |-> cv.docs \o projects.docs \o repos.docs]

\* flow_load without the test of line 124: the tasks run on an empty list.
flow_load_unguarded(rn, files) ==
    LET loaded == LoadAll(files)
    IN  IF loaded.raised
        THEN Raise(rn, Exception("LoaderError"))
        ELSE [rn EXCEPT !.pc = "split", !.all_documents = loaded.docs]

\* Lines 116-124, 127-128: with no document the flow ends.
flow_load(rn, files) ==
    LET loaded == LoadAll(files)
    IN  IF loaded.raised
        THEN Raise(rn, Exception("LoaderError"))
        ELSE IF loaded.docs # <<>>
             THEN [rn EXCEPT !.pc = "split", !.all_documents = loaded.docs]
             ELSE Return(rn, "empty")

\* A run starts whenever it is launched, whatever the other run is doing; `after`
\* records the runs that had ended by then (an observation, not program state).
Load(r) ==
    /\ run[r].pc = "load"
    /\ run' = [run EXCEPT ![r] =
                 flow_load([@ EXCEPT !.after = {q \in Runs : run[q].pc = "done"}], fs)]
    /\ UNCHANGED <<fs, collection>>
    /\ Observe(r)

\* Line 125.
flow_split(rn) ==
    [rn EXCEPT !.pc     = "embed",
               !.chunks = split_documents(rn.all_documents),
               !.calls  = Append(@, Call("split_documents", "ok"))]

Split(r) ==
    /\ run[r].pc = "split"
    /\ run' = [run EXCEPT ![r] = flow_split(@)]
    /\ UNCHANGED <<fs, collection>>
    /\ Observe(r)

(***************************************************************************)
(* generate_and_store_embeddings, ingestion_flow.py:63-112.                *)
(***************************************************************************)
\* is_valid without strip(): only the empty text is dropped.
is_valid_no_strip(c) == c.page_content # <<>>

\* Line 67: c.page_content and len(c.page_content.strip()) > 0.
is_valid(c) ==
    /\ c.page_content # <<>>
    /\ SpanLen(strip(c.page_content, [s |-> 1, e |-> Len(c.page_content)])) > 0

valid_chunks(chunks) == SelectSeq(chunks, is_valid)

\* Lines 71-82: the calls of the try block when the provider answers `response`.
\* The constructor of line 75 runs before texts and metadatas are assigned.
embed_try(rn, response) ==
    LET valid == valid_chunks(rn.chunks)
    IN  IF response.raised /\ response.at = "GoogleGenerativeAIEmbeddings"
        THEN [rn EXCEPT !.calls = Append(@, Call("GoogleGenerativeAIEmbeddings", "error"))]
        ELSE [rn EXCEPT
                !.texts     = [k \in 1..Len(valid) |-> valid[k].page_content],
                !.metadatas = [k \in 1..Len(valid) |-> valid[k].metadata],
                !.vectors   = IF response.raised THEN @ ELSE response.vectors,
                !.calls     = @ \o <<Call("GoogleGenerativeAIEmbeddings", "ok"),
                                     Call("embed_documents",
                                          IF response.raised THEN "error" ELSE "ok")>>]

\* Lines 88-89 after the try block returned: the client is built, then
\* vectors[0] of an empty list raises IndexError.
embed_store_client(got, client_ok) ==
    IF ~client_ok
    THEN Raise([got EXCEPT !.calls = Append(@, Call("QdrantClient", "error"))],
               Exception("ClientError"))
    ELSE LET built == [got EXCEPT !.calls = Append(@, Call("QdrantClient", "ok"))]
         IN  IF got.vectors = <<>>
             THEN Raise(built, Exception("IndexError"))
             ELSE [built EXCEPT !.pc          = "get_collection",
                                !.vector_size = Len(got.vectors[1])]

\* embed_done without the `raise` of line 86: the exception is printed and the
\* task returns.
embed_done_swallow(rn, response, client_ok) ==
    IF response.raised
    THEN Return(embed_try(rn, response), "success")
    ELSE embed_store_client(embed_try(rn, response), client_ok)

\* Lines 71-89 when the provider answers `response` ([raised, at, vectors]) and
\* the constructor of line 88 returns (client_ok) or raises: an exception of the
\* try block is printed and re-raised.
embed_done(rn, response, client_ok) ==
    IF response.raised
    THEN Raise(embed_try(rn, response), Exception("EmbeddingError"))
    ELSE embed_store_client(embed_try(rn, response), client_ok)

\* Lines 65, 68: nothing to embed, the task returns.
NothingToEmbed(rn) == rn.chunks = <<>> \/ valid_chunks(rn.chunks) = <<>>

\* What the embedding provider may answer to n texts: an error of its constructor
\* or of the call, the n vectors (vector i holds the value i in each of its d
\* components), or a malformed answer: a wrong number of vectors, or a last
\* vector of another length.
Vec(i, d) == [k \in 1..d |-> i]

MaxDim == 2

EmbedResponses(n) ==
    {[raised |-> TRUE, at |-> call, vectors |-> <<>>] :
        call \in {"GoogleGenerativeAIEmbeddings", "embed_documents"}}
    \cup {[raised |-> FALSE, at |-> "none", vectors |-> [i \in 1..m |-> Vec(i, 1)]] :
            m \in {n - 1, n + 1}}
    \cup {[raised |-> FALSE, at |-> "none", vectors |-> [i \in 1..n |-> Vec(i, d)]] :
            d \in 1..MaxDim}
    \cup {[raised |-> FALSE, at |-> "none",
           vectors |-> [i \in 1..n |-> Vec(i, IF i = n THEN MaxDim ELSE 1)]]}

Embed(r) ==
    /\ run[r].pc = "embed"
    /\ IF NothingToEmbed(run[r])
       THEN run' = [run EXCEPT ![r] = Return(@, "empty")]
       ELSE \E response \in EmbedResponses(Len(valid_chunks(run[r].chunks))),
                  client_ok \in BOOLEAN :
                run' = [run EXCEPT ![r] = embed_done(@, response, client_ok)]
    /\ UNCHANGED <<fs, collection>>
    /\ Observe(r)

\* get_collection_done that re-creates the collection whatever the lookup
\* answered.
get_collection_done_recreate(rn, res) ==
    [rn EXCEPT !.pc    = "recreate_collection",
               !.calls = Append(@, Call("get_collection", res))]

\* Lines 91-95 after get_collection answered: any exception leads to the
\* re-creation of the collection.
get_collection_done(rn, res) ==
    [rn EXCEPT !.pc    = IF res = "found" THEN "upsert" ELSE "recreate_collection",
               !.calls = Append(@, Call("get_collection", res))]

\* get_collection finds an existing collection, raises "not found" for a missing
\* one, and may fail otherwise (network, authentication, timeout) in both cases.
GetResults(c) == (IF c.exists THEN {"found"} ELSE {"not_found"}) \cup {"error"}

GetCollection(r) ==
    /\ run[r].pc = "get_collection"
    /\ \E res \in GetResults(collection) :
          run' = [run EXCEPT ![r] = get_collection_done(@, res)]
    /\ UNCHANGED <<fs, collection>>
    /\ Observe(r)

\* client.recreate_collection: the collection is deleted if it exists and created
\* empty with the given vector size.
recreate_collection(c, size) == [exists |-> TRUE, size |-> size, points |-> <<>>]

\* Lines 96-99 after recreate_collection returned (ok) or raised.
recreate_done(rn, ok) ==
    IF ok
    THEN [rn EXCEPT !.pc    = "upsert",
                    !.calls = Append(@, Call("recreate_collection", "ok"))]
    ELSE Raise([rn EXCEPT !.calls = Append(@, Call("recreate_collection", "error"))],
               Exception("QdrantError"))

RecreateCollection(r) ==
    /\ run[r].pc = "recreate_collection"
    /\ \E ok \in BOOLEAN :
          /\ run' = [run EXCEPT ![r] = recreate_done(@, ok)]
          /\ collection' = IF ok
                           THEN recreate_collection(collection, run[r].vector_size)
                           ELSE collection
    /\ UNCHANGED fs
    /\ Observe(r)

\* Batch with ids counted from 1: range(1, len(valid_chunks) + 1).
Batch_ids_from_one(rn) ==
    [ids      |-> [k \in 1..Len(rn.texts) |-> k],
     vectors  |-> rn.vectors,
     payloads |-> [k \in 1..Len(rn.texts) |->
                     [page_content |-> rn.texts[k], metadata |-> rn.metadatas[k]]]]

\* Lines 104-108: the batch of the upsert.
Batch(rn) ==
    [ids      |-> [k \in 1..Len(rn.texts) |-> k - 1],
     vectors  |-> rn.vectors,
     payloads |-> [k \in 1..Len(rn.texts) |->
                     [page_content |-> rn.texts[k], metadata |-> rn.metadatas[k]]]]

\* The store takes a batch whose ids, vectors and payloads have one length and
\* whose vectors have the collection's size, into an existing collection.
Accepts(c, batch) ==
    /\ c.exists
    /\ Len(batch.vectors) = Len(batch.ids)
    /\ Len(batch.payloads) = Len(batch.ids)
    /\ \A k \in 1..Len(batch.vectors) : Len(batch.vectors[k]) = c.size

\* upsert that appends: the batch is stored under ids following the points the
\* collection holds.
upsert_append(c, batch) ==
    LET base == Cardinality(DOMAIN c.points)
        ids  == {base + batch.ids[k] : k \in 1..Len(batch.ids)}
        at(id) == CHOOSE k \in 1..Len(batch.ids) : base + batch.ids[k] = id
    IN  [c EXCEPT !.points =
            [id \in DOMAIN c.points \cup ids |->
                IF id \in ids
                THEN [vector |-> batch.vectors[at(id)], payload |-> batch.payloads[at(id)]]
                ELSE c.points[id]]]

\* client.upsert(..., wait=True): insert or replace by id, all points or none.
upsert(c, batch) ==
    LET ids == {batch.ids[k] : k \in 1..Len(batch.ids)}
        at(id) == CHOOSE k \in 1..Len(batch.ids) : batch.ids[k] = id
    IN  [c EXCEPT !.points =
            [id \in DOMAIN c.points \cup ids |->
                IF id \in ids
                THEN [vector |-> batch.vectors[at(id)], payload |-> batch.payloads[at(id)]]
                ELSE c.points[id]]]

\* Lines 101-112 after upsert returned (ok) or raised.
upsert_done(rn, ok) ==
    IF ok
    THEN Return([rn EXCEPT !.calls = Append(@, Call("upsert", "ok"))], "success")
    ELSE Raise([rn EXCEPT !.calls = Append(@, Call("upsert", "error"))],
               Exception("QdrantError"))

Upsert(r) ==
    /\ run[r].pc = "upsert"
    /\ \E ok \in {b \in BOOLEAN : b => Accepts(collection, Batch(run[r]))} :
          /\ run' = [run EXCEPT ![r] = upsert_done(@, ok)]
          /\ collection' = IF ok THEN upsert(collection, Batch(run[r])) ELSE collection
    /\ UNCHANGED fs
    /\ Observe(r)

(***************************************************************************)
(* The query service, HF_space/rag_api.py.                                 *)
(***************************************************************************)
\* os.getenv(name) of a variable that is not set: None.
Unset == [defined |-> FALSE, value |-> ""]

Value(v) == [defined |-> TRUE, value |-> v]

\* os.getenv(name, default).
getenv(env, name, default) ==
    IF env[name].defined THEN env[name].value ELSE default

\* `not x` for x = os.getenv(name): None and the empty string are false.
not(x) == ~x.defined \/ x.value = ""

\* Line 26: qa_chain = None.
None == [is_none |-> TRUE]

\* The RetrievalQA that line 100 builds.
RetrievalQA(collection_name, model, template) ==
    [is_none         |-> FALSE,
     collection_name |-> collection_name,
     model           |-> model,
     template        |-> template]

\* The library calls of the two try blocks of startup_event, in order.
RetrieverCalls ==
    <<"GoogleGenerativeAIEmbeddings", "QdrantClient", "Qdrant", "as_retriever">>
ChainCalls == <<"ChatGroq", "PromptTemplate", "RetrievalQA.from_chain_type">>

\* The calls a try block makes when call number `fail` raises (0: none does).
TryCalls(names, fail) ==
    [k \in 1..(IF fail = 0 THEN Len(names) ELSE fail) |->
        Call(names[k], IF k = fail THEN "error" ELSE "ok")]

\* startup_event without the test of lines 70-72: the chain is built whatever
\* GROQ_API_KEY and SYSTEM_PROMPT are.
startup_event_no_groq_check(env, fail1, fail2) ==
    IF not(env["QDRANT_URL"]) \/ not(env["QDRANT_API_KEY"])
    THEN [qa_chain |-> None, calls |-> <<>>]
    ELSE IF fail1 # 0
    THEN [qa_chain |-> None, calls |-> TryCalls(RetrieverCalls, fail1)]
    ELSE IF fail2 # 0
    THEN [qa_chain |-> None,
          calls    |-> TryCalls(RetrieverCalls, 0) \o TryCalls(ChainCalls, fail2)]
    ELSE [qa_chain |-> RetrievalQA(getenv(env, "COLLECTION_NAME", "carrera_profesional"),
                                   getenv(env, "MODEL_NAME", "openai/gpt-oss-120b"),
                                   env["SYSTEM_PROMPT"].value),
          calls    |-> TryCalls(RetrieverCalls, 0) \o TryCalls(ChainCalls, 0)]

\* Lines 31-111, with qa_chain None on entry: [qa_chain, calls] when call number
\* fail1 of the first try block and fail2 of the second raise.
startup_event(env, fail1, fail2) ==
    IF not(env["QDRANT_URL"]) \/ not(env["QDRANT_API_KEY"])
    THEN [qa_chain |-> None, calls |-> <<>>]
    ELSE IF fail1 # 0
    THEN [qa_chain |-> None, calls |-> TryCalls(RetrieverCalls, fail1)]
    ELSE IF not(env["GROQ_API_KEY"]) \/ not(env["SYSTEM_PROMPT"])
    THEN [qa_chain |-> None, calls |-> TryCalls(RetrieverCalls, 0)]
    ELSE IF fail2 # 0
    THEN [qa_chain |-> None,
          calls    |-> TryCalls(RetrieverCalls, 0) \o TryCalls(ChainCalls, fail2)]
    ELSE [qa_chain |-> RetrievalQA(getenv(env, "COLLECTION_NAME", "carrera_profesional"),
                                   getenv(env, "MODEL_NAME", "openai/gpt-oss-120b"),
                                   env["SYSTEM_PROMPT"].value),
          calls    |-> TryCalls(RetrieverCalls, 0) \o TryCalls(ChainCalls, 0)]

\* The process before its startup event: the module is imported, line 26 ran.
Imported == [pc |-> "startup", calls |-> <<>>, requests |-> <<>>]

\* The startup event runs once, before the first request is served.
Startup ==
    /\ app.pc = "startup"
    /\ \E fail1 \in 0..Len(RetrieverCalls), fail2 \in 0..Len(ChainCalls) :
          LET started == startup_event(environ, fail1, fail2)
          IN  /\ qa_chain' = started.qa_chain
              /\ app' = [app EXCEPT !.pc = "serving", !.calls = started.calls]
    /\ UNCHANGED <<fs, collection, run, snap, environ>>

\* What qa_chain.invoke may do: raise, or return the result and the source
\* documents.
InvokeResults(chain, query) ==
    {[raised |-> TRUE, result |-> <<>>, source_documents |-> <<>>]}
    \cup {[raised |-> FALSE, result |-> <<chain.model, query>>, source_documents |-> docs] :
            docs \in {<<>>,
                      <<[page_content |-> <<"a">>,
                         metadata |-> [source |-> <<1, 1>>, page |-> 1]]>>}}

\* Lines 113-127: the answer to POST /ask when the chain, if invoked, does
\* `response`.
ask_rag(chain, query, response) ==
    IF chain = None
    THEN [endpoint |-> "/ask", status |-> 503, invoked |-> "no", body |-> <<>>]
    ELSE IF response.raised
    THEN [endpoint |-> "/ask", status |-> 500, invoked |-> "error", body |-> <<>>]
    ELSE [endpoint |-> "/ask", status |-> 200, invoked |-> "ok",
          body |-> [answer  |-> response.result,
                    sources |-> [k \in 1..Len(response.source_documents) |->
                                   [content  |-> response.source_documents[k].page_content,
                                    metadata |-> response.source_documents[k].metadata]]]]

MaxRequests == 2

Queries == {"q"}

Ask ==
    /\ app.pc = "serving"
    /\ Len(app.requests) < MaxRequests
    /\ \E query \in Queries :
          \E response \in (IF qa_chain = None
                           THEN {[raised |-> FALSE, result |-> <<>>,
                                  source_documents |-> <<>>]}
                           ELSE InvokeResults(qa_chain, query)) :
              app' = [app EXCEPT !.requests = Append(@, ask_rag(qa_chain, query, response))]
    /\ UNCHANGED <<fs, collection, run, snap, environ, qa_chain>>

\* Lines 129-132: the answer to GET /.
health_check(chain) ==
    [endpoint |-> "/", status |-> 200, invoked |-> "no",
     body |-> [status |-> "ok", qa_chain_ready |-> chain # None]]

Health ==
    /\ app.pc = "serving"
    /\ Len(app.requests) < MaxRequests
    /\ app' = [app EXCEPT !.requests = Append(@, health_check(qa_chain))]
    /\ UNCHANGED <<fs, collection, run, snap, environ, qa_chain>>

\* The values of the environment variables startup_event reads.
EnvValues(name) ==
    IF name \in {"COLLECTION_NAME", "MODEL_NAME"}
    THEN {Unset, Value("x")}
    ELSE {Unset, Value(""), Value("x")}

EnvNames ==
    {"QDRANT_URL", "QDRANT_API_KEY", "COLLECTION_NAME",
     "GROQ_API_KEY", "SYSTEM_PROMPT", "MODEL_NAME"}

Environments == {env \in [EnvNames -> {Unset, Value(""), Value("x")}] :
                    \A name \in EnvNames : env[name] \in EnvValues(name)}

\* The process ends and is started again, with an environment that may differ.
Restart ==
    /\ app.pc = "serving"
    /\ environ' \in Environments
    /\ qa_chain' = None
    /\ app' = Imported
    /\ UNCHANGED <<fs, collection, run, snap>>

\* The query service is not part of an ingestion run.
ServiceIdle ==
    /\ environ = [name \in EnvNames |-> Unset]
    /\ qa_chain = None
    /\ app = Imported

(***************************************************************************)
(* Specifications.                                                         *)
(***************************************************************************)
MaxFiles == 2

T_a == <<"a">>
T_ab == <<" ", "a", "b", "\n">>
T_blank == <<" ">>
T_cr == <<"\r">>
T_ff == <<"\f">>

\* The files a directory may hold: a two-page PDF with an upper-case extension
\* and a blank second page, a Markdown file whose loader fails, and a file with
\* an extension LOADER_MAPPING does not have.
FileKinds ==
    { [ext |-> <<".", "P", "D", "F">>, loads |-> TRUE,  pages |-> <<T_ab, T_cr>>],
      [ext |-> <<".", "m", "d">>,      loads |-> FALSE, pages |-> <<>>],
      [ext |-> <<".", "x", "y", "z">>, loads |-> TRUE,  pages |-> <<T_a>>] }

\* A directory is missing or holds one to MaxFiles files.
Directories ==
    {[exists |-> FALSE, files |-> <<>>]}
    \cup {[exists |-> TRUE, files |-> f] :
            f \in UNION {[1..k -> FileKinds] : k \in 1..MaxFiles}}

NoCollection == [exists |-> FALSE, size |-> 0, points |-> <<>>]

MaxPrior == 3

\* A collection left by earlier ingestions: MaxPrior points with ids from 0.
PriorCollection ==
    [exists |-> TRUE,
     size   |-> 1,
     points |-> [id \in 0..(MaxPrior - 1) |->
                    [vector  |-> Vec(9, 1),
                     payload |-> [page_content |-> <<"o">>,
                                  metadata |-> [source |-> <<0, id>>, page |-> 1]]]]]

\* The source trees: at most MaxFiles files over the three directories.
FileSystems ==
    {f \in [1..Len(Dirs) -> Directories] :
        Len(f[1].files) + Len(f[2].files) + Len(f[3].files) <= MaxFiles}

Init ==
    /\ fs \in FileSystems
    /\ collection \in {NoCollection, PriorCollection}
    /\ run = [r \in Runs |-> NewRun("load")]
    /\ snap = [r \in Runs |-> <<>>]
    /\ ServiceIdle

Next ==
    /\ \E r \in Runs :
          \/ Load(r)
          \/ Split(r)
          \/ Embed(r)
          \/ GetCollection(r)
          \/ RecreateCollection(r)
          \/ Upsert(r)
    /\ UNCHANGED <<environ, qa_chain, app>>

Spec == Init /\ [][Next]_vars

(***************************************************************************)
(* SpecSplit: split_documents applied to one long document.                *)
(***************************************************************************)
MaxDocLen == 2500
MidWord == 300
LongWord == 1200
MaxSep == 2

\* A text of length L: `lead` separator characters, then words of w letters
\* separated by n separator characters c.
Pattern(lead, w, c, n, L) ==
    [i \in 1..L |->
        IF i <= lead THEN c
        ELSE IF ((i - lead - 1) % (w + n)) < w THEN "a" ELSE c]

DocLens ==
    {0, 1, chunk_size - 1, chunk_size, chunk_size + 1,
     2 * chunk_size - chunk_overlap, 2 * chunk_size - chunk_overlap + 1, MaxDocLen}

LongTexts ==
    {Pattern(lead, w, c, n, L) :
        lead \in {0, 1}, w \in {1, 3, MidWord, LongWord}, c \in {" ", "\n", "\r"},
        n \in 0..MaxSep, L \in DocLens}

DocumentOf(text) ==
    [page_content |-> text, metadata |-> [source |-> <<1, 1>>, page |-> 1]]

InitSplit ==
    /\ fs = [d \in 1..Len(Dirs) |-> [exists |-> FALSE, files |-> <<>>]]
    /\ collection = NoCollection
    /\ \E text \in LongTexts :
          run = [r \in Runs |->
                   IF r = 1
                   THEN [NewRun("split") EXCEPT !.all_documents = <<DocumentOf(text)>>]
                   ELSE NewRun("load")]
    /\ snap = [r \in Runs |-> <<>>]
    /\ ServiceIdle

NextSplit == Split(1) /\ UNCHANGED <<environ, qa_chain, app>>

SpecSplit == InitSplit /\ [][NextSplit]_vars

(***************************************************************************)
(* SpecTask: generate_and_store_embeddings applied to a list of chunks.    *)
(***************************************************************************)
MaxChunks == 2

ChunkTexts == {<<>>, T_blank, T_cr, T_ff, T_a, T_ab}

ChunkLists ==
    UNION {[1..k -> ChunkTexts] : k \in 0..MaxChunks}

ChunksFrom(texts) ==
    [k \in 1..Len(texts) |->
        [page_content |-> texts[k], metadata |-> [source |-> <<1, k>>, page |-> 1]]]

InitTask ==
    /\ fs = [d \in 1..Len(Dirs) |-> [exists |-> FALSE, files |-> <<>>]]
    /\ collection \in {NoCollection, PriorCollection}
    /\ \E texts \in ChunkLists :
          run = [r \in Runs |->
                   IF r = 1
                   THEN [NewRun("embed") EXCEPT !.chunks = ChunksFrom(texts)]
                   ELSE NewRun("load")]
    /\ snap = [r \in Runs |-> <<>>]
    /\ ServiceIdle

NextTask ==
    /\ \/ Embed(1)
       \/ GetCollection(1)
       \/ RecreateCollection(1)
       \/ Upsert(1)
    /\ UNCHANGED <<environ, qa_chain, app>>

SpecTask == InitTask /\ [][NextTask]_vars

(***************************************************************************)
(* SpecApi: the query service, started and restarted under every           *)
(* environment.                                                            *)
(***************************************************************************)
InitApi ==
    /\ fs = [d \in 1..Len(Dirs) |-> [exists |-> FALSE, files |-> <<>>]]
    /\ collection = PriorCollection
    /\ run = [r \in Runs |-> NewRun("load")]
    /\ snap = [r \in Runs |-> <<>>]
    /\ environ \in Environments
    /\ qa_chain = None
    /\ app = Imported

NextApi ==
    \/ Startup
    \/ Ask
    \/ Health
    \/ Restart

SpecApi == InitApi /\ [][NextApi]_vars

(***************************************************************************)
(* Properties.                                                             *)
(***************************************************************************)
Made(rn, op, res) == \E k \in 1..Len(rn.calls) : rn.calls[k] = Call(op, res)

Called(rn, op) == \E k \in 1..Len(rn.calls) : rn.calls[k].op = op

StoreOps == {"get_collection", "recreate_collection", "upsert"}

\* An extension LOADER_MAPPING has, compared without regard to case.
Registered(ext) ==
    \E m \in LOADER_MAPPING :
        /\ Len(m) = Len(ext)
        /\ \A k \in 1..Len(m) :
              \/ ext[k] = m[k]
              \/ \E u \in 1..Len(Upper) : Upper[u] = ext[k] /\ Lower[u] = m[k]

\* <<directory, file, page>> of every page of a file of an existing directory
\* whose extension is registered and whose loader succeeds.
LoadableKeys ==
    UNION {UNION {{<<d, i, k>> : k \in 1..Len(fs[d].files[i].pages)} :
                    i \in {j \in 1..Len(fs[d].files) :
                             Registered(fs[d].files[j].ext) /\ fs[d].files[j].loads}} :
             d \in {e \in 1..Len(Dirs) : fs[e].exists}}

KeyOf(x) == <<x.metadata.source[1], x.metadata.source[2], x.metadata.page>>

\* Traversal order: by directory, then file, then page.
Before(a, b) ==
    \/ a[1] < b[1]
    \/ a[1] = b[1] /\ a[2] < b[2]
    \/ a[1] = b[1] /\ a[2] = b[2] /\ a[3] < b[3]

\* C1: a failed embedding call or a failed upsert call ends the run as failed,
\* never as success; after a failed embedding call the run has issued no
\* vector-store operation, and the step of the failed call leaves the collection
\* as it was.
C1_FailureAborts ==
    /\ [](\A r \in Runs :
            /\ Made(run[r], "embed_documents", "error") =>
                  /\ run[r].pc = "done" /\ run[r].outcome = "failed"
                  /\ \A op \in StoreOps : ~Called(run[r], op)
            /\ Made(run[r], "upsert", "error") =>
                  run[r].pc = "done" /\ run[r].outcome = "failed")
    /\ [][\A r \in Runs :
            (/\ ~Made(run[r], "embed_documents", "error")
             /\ Made(run'[r], "embed_documents", "error")) =>
                collection' = collection]_vars

C1_Witness ==
    /\ Made(run[1], "embed_documents", "error") /\ run[1].outcome = "failed"
    /\ Made(run[2], "upsert", "error") /\ run[2].outcome = "failed"

\* C3: when the three directories yield no document, a run ends as empty success
\* without a call to the chunker, the embedding provider or the vector store, and
\* no step changes the collection.
NoDocuments ==
    \A d \in 1..Len(Dirs) :
        fs[d].exists =>
            \A i \in 1..Len(fs[d].files) :
                \/ ~fs[d].files[i].loads
                \/ fs[d].files[i].pages = <<>>
                \/ ~Registered(fs[d].files[i].ext)

C3_EmptySuccess ==
    /\ [](\A r \in Runs :
            run[r].pc # "load" =>
                \/ /\ run[r].pc = "done" /\ run[r].outcome = "empty"
                   /\ run[r].calls = <<>>
                \/ ~NoDocuments)
    /\ [][collection' = collection \/ ~NoDocuments]_vars

C3_Witness ==
    /\ NoDocuments
    /\ \E d \in 1..Len(Dirs) : fs[d].exists /\ Len(fs[d].files) > 0
    /\ \A r \in Runs : run[r].pc = "done" /\ run[r].outcome = "empty"
    /\ ~collection.exists

\* C7: loading raises nothing and returns exactly the pages of the files with a
\* registered extension whose loader succeeded, in traversal order; a missing
\* directory, an unregistered extension and a failing loader contribute nothing.
\* Stated on the loading step; the loaded list and the directories do not change
\* afterwards.
C7_LoadingAbsorbsFailures ==
    /\ [](\A r \in Runs : run[r].error.type # "LoaderError")
    /\ [][\A r \in Runs :
            (run[r].pc = "load" /\ run'[r].pc # "load") =>
                LET docs == run'[r].all_documents
                IN  /\ Len(docs) = Cardinality(LoadableKeys)
                    /\ \A j \in 1..Len(docs) :
                          /\ KeyOf(docs[j]) \in LoadableKeys
                          /\ docs[j].page_content =
                                fs[KeyOf(docs[j])[1]].files[KeyOf(docs[j])[2]]
                                    .pages[KeyOf(docs[j])[3]]
                    /\ \A j \in 1..(Len(docs) - 1) :
                          Before(KeyOf(docs[j]), KeyOf(docs[j + 1]))]_vars
    /\ [][\A r \in Runs :
            run[r].pc # "load" =>
                run'[r].all_documents = run[r].all_documents]_vars
    /\ [][fs' = fs]_vars

C7_Witness ==
    /\ run[1].pc # "load"
    /\ \E d \in 1..Len(Dirs) : ~fs[d].exists
    /\ \E d \in 1..Len(Dirs) :
          /\ Len(fs[d].files) = 2
          /\ Registered(fs[d].files[1].ext) /\ ~fs[d].files[1].loads
          /\ Registered(fs[d].files[2].ext) /\ fs[d].files[2].loads
    /\ Len(run[1].all_documents) > 0

\* C11: once the lookup of the collection succeeded, a step of that run changes
\* only the points with ids 0..n-1, n being the number of valid chunks: a point
\* stored with an id >= n stays as it was and no id outside 0..n-1 appears, so a
\* successful run can end with points of an earlier run beside its own.
C11_HigherIdsUntouched ==
    [][\A r \in Runs :
         (/\ Made(run[r], "get_collection", "found")
          /\ run'[r] # run[r]) =>
             LET n == Len(run[r].texts)
             IN  /\ collection'.exists
                 /\ collection'.size = collection.size
                 /\ \A id \in DOMAIN collection.points :
                       id >= n => /\ id \in DOMAIN collection'.points
                                  /\ collection'.points[id] = collection.points[id]
                 /\ DOMAIN collection'.points \subseteq
                       DOMAIN collection.points \cup 0..(n - 1)]_vars

C11_Witness ==
    /\ Made(run[1], "get_collection", "found")
    /\ Made(run[1], "upsert", "ok")
    /\ run[1].outcome = "success"
    /\ run[2].pc = "load"
    /\ \E id \in DOMAIN collection.points :
          /\ id >= Len(run[1].texts)
          /\ collection.points[id] = PriorCollection.points[id]
    /\ \A id \in 0..(Len(run[1].texts) - 1) :
          /\ collection.points[id].payload.page_content = run[1].texts[id + 1]
          /\ collection.points[id] # PriorCollection.points[id]

\* Every configuration step of startup_event completed: the four required
\* variables are set and not empty, and each library call returned.
Configured ==
    /\ \A name \in {"QDRANT_URL", "QDRANT_API_KEY", "GROQ_API_KEY", "SYSTEM_PROMPT"} :
          environ[name].defined /\ environ[name].value # ""
    /\ Len(app.calls) = Len(RetrieverCalls) + Len(ChainCalls)
    /\ \A k \in 1..Len(app.calls) : app.calls[k].res = "ok"

\* C12: the chain is invoked by POST /ask only after a startup that completed
\* every configuration step; after any other startup qa_chain is unset, every
\* POST /ask answers 503 without invoking the chain and GET / reports
\* qa_chain_ready false; a failed invocation answers 500, and no request changes
\* qa_chain.
C12_ChainOnlyWhenConfigured ==
    /\ [](/\ app.pc # "serving" => qa_chain = None /\ app.requests = <<>>
          /\ app.pc = "serving" =>
                /\ qa_chain # None <=> Configured
                /\ \A k \in 1..Len(app.requests) :
                      LET req == app.requests[k]
                      IN  /\ req.invoked # "no" => Configured /\ req.endpoint = "/ask"
                          /\ (~Configured /\ req.endpoint = "/ask") =>
                                req.status = 503 /\ req.invoked = "no"
                          /\ (~Configured /\ req.endpoint = "/") =>
                                req.body.qa_chain_ready = FALSE
                          /\ (Configured /\ req.endpoint = "/") =>
                                req.body.qa_chain_ready = TRUE
                          /\ req.invoked = "error" <=> req.status = 500
                          /\ req.invoked = "ok" <=> (req.endpoint = "/ask" /\ req.status = 200))
    /\ [][(app.pc = "serving" /\ app'.pc = "serving") => qa_chain' = qa_chain]_vars

C12_Witness ==
    /\ app.pc = "serving"
    /\ Configured
    /\ qa_chain # None
    /\ Len(app.requests) = 2
    /\ app.requests[1].endpoint = "/ask" /\ app.requests[1].status = 500
    /\ app.requests[2].endpoint = "/ask" /\ app.requests[2].status = 200

\* A text with no character other than whitespace.
IsBlank(text) == \A i \in 1..Len(text) : text[i] \in Whitespace

NonBlankChunk(c) == ~IsBlank(c.page_content)

\* C2 (as claimed): the collection is re-created only when it does not exist.
C2_CreateOnlyIfAbsent ==
    [][\A r \in Runs :
        (/\ run[r].pc = "recreate_collection"
         /\ Made(run'[r], "recreate_collection", "ok")) =>
            ~collection.exists]_vars

\* C4: when the flow is run twice on the same directories, the first run creating
\* the collection and the second finding it, the collection holds after the
\* second run the ids and payloads it held after the first.
C4_Idempotent ==
    (/\ run[1].outcome = "success" /\ Made(run[1], "recreate_collection", "ok")
     /\ 1 \in run[2].after
     /\ run[2].outcome = "success" /\ Made(run[2], "get_collection", "found"))
        => snap[2] = snap[1]

C4_Witness ==
    /\ run[1].outcome = "success" /\ Made(run[1], "recreate_collection", "ok")
    /\ 1 \in run[2].after
    /\ run[2].outcome = "success" /\ Made(run[2], "get_collection", "found")
    /\ DOMAIN snap[2] = {0, 1}
    /\ collection.points[0].vector # collection.points[1].vector

\* C5: the successful upsert of a run with n non-blank chunks stores, for each i,
\* under id i - 1 the i-th non-blank chunk's text and metadata with the i-th
\* vector the provider returned, and writes no other id; the chunks are in the
\* order of the directories CV, proyectos, repos.
C5_UpsertWritesChunksInOrder ==
    [][\A r \in Runs :
        (run[r].pc = "upsert" /\ run'[r].outcome = "success") =>
            LET valid == SelectSeq(run[r].chunks, NonBlankChunk)
                n     == Len(valid)
            IN  /\ n > 0 /\ Len(run[r].vectors) = n
                /\ \A i \in 1..n :
                      /\ (i - 1) \in DOMAIN collection'.points
                      /\ collection'.points[i - 1] =
                            [vector  |-> run[r].vectors[i],
                             payload |-> [page_content |-> valid[i].page_content,
                                          metadata     |-> valid[i].metadata]]
                /\ \A id \in DOMAIN collection'.points \ (0..(n - 1)) :
                      /\ id \in DOMAIN collection.points
                      /\ collection'.points[id] = collection.points[id]
                /\ \A j \in 1..(n - 1) :
                      ~Before(KeyOf(valid[j + 1]), KeyOf(valid[j]))]_vars

C5_Witness ==
    /\ run[1].outcome = "success" /\ run[2].pc = "load"
    /\ Len(run[1].texts) = 2
    /\ run[1].metadatas[1].source[1] = 1 /\ run[1].metadatas[2].source[1] = 3
    /\ DOMAIN collection.points = {0, 1}
    /\ collection.points[1].payload.metadata.source[1] = 3
    /\ collection.points[1].vector = run[1].vectors[2]

\* The provider's answer to the embedding call is malformed: not one vector per
\* text, or vectors of different lengths.
Malformed(rn) ==
    /\ Made(rn, "embed_documents", "ok")
    /\ \/ Len(rn.vectors) # Len(rn.texts)
       \/ \E i, j \in 1..Len(rn.vectors) : Len(rn.vectors[i]) # Len(rn.vectors[j])

\* C6 (as claimed): a malformed answer of the provider ends the run with a
\* ContractViolation, and the run issues no upsert.
C6_ContractViolation ==
    \A r \in Runs :
        Malformed(run[r]) =>
            /\ run[r].pc = "done" /\ run[r].outcome = "failed"
            /\ run[r].error.type = "ContractViolation"
            /\ ~Called(run[r], "upsert")

\* C8: no blank chunk is sent to the embedding provider or stored as a point;
\* when no chunk is non-blank the run ends as empty success without a call to the
\* provider or the store, and leaves the collection as it was.
C8_NoBlankChunk ==
    /\ [](/\ \A r \in Runs :
              LET nonblank == SelectSeq(run[r].chunks, NonBlankChunk)
              IN  /\ Called(run[r], "embed_documents") =>
                        /\ run[r].texts =
                              [k \in 1..Len(nonblank) |-> nonblank[k].page_content]
                        /\ \A k \in 1..Len(run[r].texts) : ~IsBlank(run[r].texts[k])
                  /\ (run[r].pc \notin {"load", "split", "embed"} /\ nonblank = <<>>) =>
                        /\ run[r].pc = "done" /\ run[r].outcome = "empty"
                        /\ ~Called(run[r], "embed_documents")
                        /\ \A op \in StoreOps : ~Called(run[r], op)
           /\ \A id \in DOMAIN collection.points :
                 ~IsBlank(collection.points[id].payload.page_content))
    /\ [][\A r \in Runs :
            (/\ run[r].pc = "embed" /\ run'[r].pc # "embed"
             /\ SelectSeq(run[r].chunks, NonBlankChunk) = <<>>) =>
                collection' = collection]_vars

C8_Witness ==
    /\ run[1].outcome = "success"
    /\ Len(run[1].chunks) = 2 /\ Len(run[1].texts) = 1
    /\ run[1].chunks[1].page_content = T_cr
    /\ collection.points[0].payload.page_content = run[1].chunks[2].page_content

\* C10 (as claimed): a run ends as success, empty success or failure, and the
\* cause of a failure names the stage that failed and the underlying error.
Stages == {"loading", "chunking", "embedding", "storing"}

C10_FailureNamesStage ==
    \A r \in Runs :
        run[r].pc = "done" =>
            /\ run[r].outcome \in {"success", "empty", "failed"}
            /\ (\/ Made(run[r], "embed_documents", "error")
                \/ Made(run[r], "recreate_collection", "error")
                \/ Made(run[r], "upsert", "error")) =>
                  /\ run[r].outcome = "failed"
                  /\ run[r].error.type # "none" /\ run[r].error.stage \in Stages

(***************************************************************************)
(* Properties of split_documents, under SpecSplit.                         *)
(***************************************************************************)
SplitText == run[1].all_documents[1].page_content

SplitSpans == split_text_spans(SplitText)

\* The characters two consecutive chunks share.
Overlap(p, q) == IF p.e >= q.s THEN p.e - q.s + 1 ELSE 0

\* The chunks glued together, each without its first ov[k] characters.
RECURSIVE Glue(_, _, _)
Glue(chunks, ov, k) ==
    IF k = 0 THEN <<>>
    ELSE Glue(chunks, ov, k - 1)
            \o SubSeq(chunks[k].page_content, ov[k] + 1, Len(chunks[k].page_content))

\* C9 (as claimed): every chunk has at most chunk_size characters, every chunk
\* but the last exactly chunk_size, consecutive chunks share exactly
\* chunk_overlap characters, and the chunks without the shared characters make
\* up the document.
C9_ExactWindows ==
    run[1].pc = "embed" =>
        LET sp == SplitSpans
            n  == Len(sp)
        IN  /\ Len(run[1].chunks) = n
            /\ \A k \in 1..n : Len(run[1].chunks[k].page_content) <= chunk_size
            /\ \A k \in 1..(n - 1) : Len(run[1].chunks[k].page_content) = chunk_size
            /\ \A k \in 1..(n - 1) : Overlap(sp[k], sp[k + 1]) = chunk_overlap
            /\ Glue(run[1].chunks, [k \in 1..n |-> IF k = 1 THEN 0 ELSE chunk_overlap], n)
                  = SplitText

\* C9 (amended): every chunk is a trimmed, non-empty piece of the document of at
\* most chunk_size characters; the chunks are in document order, consecutive
\* chunks share at most chunk_overlap characters, and every character that is not
\* whitespace is in a chunk.  For a document without whitespace every chunk but
\* the last has exactly chunk_size characters, consecutive chunks share exactly
\* chunk_overlap characters, and the chunks without the shared characters make up
\* the document.
C9_BoundedWindows ==
    run[1].pc = "embed" =>
        LET sp == SplitSpans
            n  == Len(sp)
        IN  /\ Len(run[1].chunks) = n
            /\ \A k \in 1..n :
                  /\ run[1].chunks[k].page_content = SubSeq(SplitText, sp[k].s, sp[k].e)
                  /\ run[1].chunks[k].metadata = run[1].all_documents[1].metadata
                  /\ 1 <= SpanLen(sp[k]) /\ SpanLen(sp[k]) <= chunk_size
                  /\ SplitText[sp[k].s] \notin Whitespace
                  /\ SplitText[sp[k].e] \notin Whitespace
            /\ \A k \in 1..(n - 1) :
                  /\ sp[k].s < sp[k + 1].s /\ sp[k].e <= sp[k + 1].e
                  /\ Overlap(sp[k], sp[k + 1]) <= chunk_overlap
            /\ \A i \in 1..Len(SplitText) :
                  SplitText[i] \notin Whitespace =>
                      \E k \in 1..n : sp[k].s <= i /\ i <= sp[k].e
            /\ (\A i \in 1..Len(SplitText) : SplitText[i] \notin Whitespace) =>
                  /\ \A k \in 1..(n - 1) :
                        /\ SpanLen(sp[k]) = chunk_size
                        /\ Overlap(sp[k], sp[k + 1]) = chunk_overlap
                  /\ Glue(run[1].chunks,
                          [k \in 1..n |-> IF k = 1 THEN 0 ELSE Overlap(sp[k - 1], sp[k])],
                          n) = SplitText

\* A document of words and separators split into chunks shorter than chunk_size
\* that share nothing.
C9_Witness ==
    /\ run[1].pc = "embed"
    /\ Len(run[1].chunks) >= 3
    /\ \E i \in 1..Len(SplitText) : SplitText[i] \in Whitespace
    /\ Len(run[1].chunks[1].page_content) < chunk_size
    /\ Overlap(SplitSpans[1], SplitSpans[2]) = 0
====
